---- MODULE Spec2Model ----
(***************************************************************************)
(* Model of internal/services/providers/eks/client/aws.go: the option-     *)
(* configured AWS client (New and its four Opt steps), its three memoizing *)
(* getters, the tag scan getClusterName and the chunked lookup             *)
(* GetInstancesByInstanceIDs.                                              *)
(*                                                                         *)
(* Go strings are sequences of one-character strings, so that HasPrefix    *)
(* and TrimPrefix are computed.  A Go pointer is a sequence of at most one *)
(* element: Nil is <<>>, a pointer to v is <<v>>.  An error is a sequence  *)
(* of messages, outermost wrapper first; the nil error is <<>>.            *)
(***************************************************************************)
EXTENDS Integers, Sequences, FiniteSets, TLC

\* ---------------------------------------------------------------- bounds
MaxOpts == 3
MaxTags == 2
MaxIds == 45
MaxReservations == 2

\* ------------------------------------------------------- values and helpers
Nil == <<>>
Ptr(v) == <<v>>
Deref(p) == p[1]

NoErr == <<>>
Wrap(msg, err) == <<msg>> \o err

Min(a, b) == IF a < b THEN a ELSE b

\* strings.HasPrefix(s, prefix)
HasPrefix(s, prefix) ==
    /\ Len(s) >= Len(prefix)
    /\ SubSeq(s, 1, Len(prefix)) = prefix

\* strings.TrimPrefix(s, prefix)
TrimPrefix(s, prefix) ==
    IF HasPrefix(s, prefix) THEN SubSeq(s, Len(prefix) + 1, Len(s)) ELSE s

\* ------------------------------------------------------------- constants
tagEKSK8sCluster == <<"k","8","s",".","i","o","/","c","l","u","s","t","e","r","/">>
tagEKSKubernetesCluster ==
    <<"k","u","b","e","r","n","e","t","e","s",".","i","o","/","c","l","u","s","t","e","r","/">>
tagKOPSKubernetesCluster ==
    <<"K","u","b","e","r","n","e","t","e","s","C","l","u","s","t","e","r">>
owned == <<"o","w","n","e","d">>
eksClusterTags == <<tagEKSK8sCluster, tagEKSKubernetesCluster>>
batchSize == 20

\* ------------------------------------------------------ collaborator answers
\* What the instance-metadata service and the EC2 API can answer.
CollabErrs == { <<"boom">> }
MetaRegions == { <<"r","2">> }
MetaAccountIDs == { <<"4","2">> }
MetaInstanceIDs == { <<"i","-","1">> }

\* Arguments a caller passes to WithMetadata (the empty string is a string).
StaticMetadata ==
    { [accountID |-> <<"1","1">>, region |-> <<"r","1">>, clusterName |-> <<"c","1">>],
      [accountID |-> <<>>, region |-> <<>>, clusterName |-> <<>>] }

\* An Opt value: the step's kind and, for WithMetadata, its three arguments.
Step(kind) == [kind |-> kind, accountID |-> <<>>, region |-> <<>>, clusterName |-> <<>>]
Static(m) ==
    [kind |-> "WithMetadata", accountID |-> m.accountID, region |-> m.region,
     clusterName |-> m.clusterName]

OptSet ==
    { Step(k) : k \in {"WithEC2Client", "WithValidateCredentials", "WithMetadataDiscovery"} }
    \cup { Static(m) : m \in StaticMetadata }

SeqsUpTo(S, n) == UNION { [1..k -> S] : k \in 0..n }

\* Tag keys and values of the instance being described.
TagKeys ==
    { tagEKSK8sCluster \o <<"a">>,
      tagEKSKubernetesCluster \o <<"b">>,
      tagEKSK8sCluster,
      tagKOPSKubernetesCluster,
      SubSeq(tagEKSK8sCluster, 1, Len(tagEKSK8sCluster) - 1) }
TagValues == { owned, <<"c">>, <<>> }

\* []*ec2.Tag elements: a nil tag, a tag with a nil Key, a nil Value, or both set.
TagSet ==
    { Nil }
    \cup { Ptr([Key |-> Nil, Value |-> Ptr(owned)]) }
    \cup { Ptr([Key |-> Ptr(tagKOPSKubernetesCluster), Value |-> Nil]) }
    \cup { Ptr([Key |-> Ptr(k), Value |-> Ptr(v)]) : k \in TagKeys, v \in TagValues }

TagLists == SeqsUpTo(TagSet, MaxTags)

\* The instanceIDs argument of length n: distinct identifiers in descending order.
IdAt(n, k) == n + 1 - k

\* What a chunk's describe call can answer: up to MaxReservations reservations,
\* each empty, with one instance, or with two instances out of order.
ReservationSet ==
    { [Instances |-> <<>>], [Instances |-> <<"i-a">>], [Instances |-> <<"i-b", "i-a">>] }
BatchResponses == SeqsUpTo(ReservationSet, MaxReservations)

\* DescribeInstancesOutput.Reservations the EC2 API holds for this node: no
\* reservation, a reservation without instances, or one instance with tags.
ClusterResponses ==
    { <<>>, << <<>> >> } \cup { << << [Tags |-> t] >> >> : t \in TagLists }

\* The few shapes of it that construction and memoization can tell apart.
MainResponses ==
    { <<>>, << <<>> >>, << << [Tags |-> <<>>] >> >>,
      << << [Tags |-> << Ptr([Key |-> Ptr(tagEKSK8sCluster \o <<"a">>),
                              Value |-> Ptr(owned)]) >>] >> >>,
      << << [Tags |-> << Ptr([Key |-> Ptr(tagKOPSKubernetesCluster),
                              Value |-> Ptr(<<>>)]) >>] >> >> }


\* ------------------------------------------------------------ getClusterName
\* A tag the scan looks at: lines 208-210 skip nil tags, nil keys, nil values.
Usable(tag) == tag # Nil /\ Deref(tag).Key # Nil /\ Deref(tag).Value # Nil

\* Lines 211-215: the first prefix of eksClusterTags, in slice order, that the
\* tag's key starts with while its value is "owned"; 0 if there is none.
OwnedPrefix_FirstOnly(tag) ==
    IF /\ HasPrefix(Deref(Deref(tag).Key), eksClusterTags[1])
       /\ Deref(Deref(tag).Value) = owned
    THEN 1 ELSE 0

OwnedPrefix(tag) ==
    LET hits == { j \in 1..Len(eksClusterTags) :
                    /\ HasPrefix(Deref(Deref(tag).Key), eksClusterTags[j])
                    /\ Deref(Deref(tag).Value) = owned }
    IN IF hits = {} THEN 0 ELSE CHOOSE j \in hits : \A k \in hits : j <= k

\* Variants of the scan: one without the KubernetesCluster rule, one that lets
\* the last matching tag decide.
RECURSIVE scanTags_OwnedOnly(_, _)
scanTags_OwnedOnly(tags, n) ==
    IF n > Len(tags) THEN <<>>
    ELSE LET tag == tags[n] IN
         IF Usable(tag) /\ OwnedPrefix(tag) # 0
         THEN TrimPrefix(Deref(Deref(tag).Key), eksClusterTags[OwnedPrefix(tag)])
         ELSE scanTags_OwnedOnly(tags, n + 1)

RECURSIVE scanTags_LastMatch(_, _)
scanTags_LastMatch(tags, n) ==
    IF n > Len(tags) THEN <<>>
    ELSE LET tag == tags[n]
             rest == scanTags_LastMatch(tags, n + 1)
         IN IF ~Usable(tag) \/ rest # <<>> THEN rest
            ELSE IF OwnedPrefix(tag) # 0
                 THEN TrimPrefix(Deref(Deref(tag).Key), eksClusterTags[OwnedPrefix(tag)])
            ELSE IF Deref(Deref(tag).Key) = tagKOPSKubernetesCluster
                 THEN Deref(Deref(tag).Value)
            ELSE rest

RECURSIVE scanTags(_, _)
scanTags(tags, n) ==
    IF n > Len(tags) THEN <<>>
    ELSE LET tag == tags[n] IN
         IF ~Usable(tag) THEN scanTags(tags, n + 1)
         ELSE IF OwnedPrefix(tag) # 0
              THEN TrimPrefix(Deref(Deref(tag).Key), eksClusterTags[OwnedPrefix(tag)])
         ELSE IF Deref(Deref(tag).Key) = tagKOPSKubernetesCluster
              THEN Deref(Deref(tag).Value)
         ELSE scanTags(tags, n + 1)

getClusterName(tags) == scanTags(tags, 1)

\* ------------------------------------------------------------------- state
VARIABLES
    opts,         \* the Opt steps passed to New
    idx,          \* position of New's loop over opts
    pc,           \* "new", "ready" (New returned c), "failed" (New returned err), "panicked"
    newRet,       \* what New returned
    order,        \* indices of the steps New has called, in call order
    stepErr,      \* the error each called step returned
    region, accountID, clusterName,   \* client fields (*string)
    sess, ec2Client, metaClient,      \* client fields (collaborator handles)
    calls,        \* collaborator calls issued by the operation in progress or last run
    prev, last,   \* the two most recent getter calls: op, returned value, error, calls
    reservations, \* environment: what DescribeInstances answers for this node's instance
    bpc,          \* GetInstancesByInstanceIDs: "idle", "loop", "done"
    ids,          \* instanceIDs argument
    i,            \* loop variable (0-based, as in the source)
    instances,    \* the local accumulator
    sent,         \* Filter values of every describe call issued, in order
    resps,        \* Reservations of every successful response, in order
    bret          \* what GetInstancesByInstanceIDs returned

newVars == <<opts, idx, newRet, order, stepErr>>
fieldVars == <<region, accountID, clusterName, sess, ec2Client, metaClient>>
getVars == <<prev, last, reservations>>
batchVars == <<bpc, ids, i, instances, sent, resps, bret>>
vars == <<newVars, pc, fieldVars, calls, getVars, batchVars>>

NoCall == [op |-> "none", ret |-> Nil, err |-> NoErr, calls |-> <<>>]

BatchIdle ==
    /\ bpc = "idle"
    /\ ids = <<>>
    /\ i = 0
    /\ instances = <<>>
    /\ sent = <<>>
    /\ resps = <<>>
    /\ bret = [instances |-> <<>>, err |-> NoErr]

\* New, line 39: c := &client{log: log}, before the first step.
Fresh ==
    /\ idx = 1
    /\ pc = "new"
    /\ newRet = [client |-> FALSE, err |-> NoErr]
    /\ order = <<>>
    /\ stepErr = <<>>
    /\ region = Nil /\ accountID = Nil /\ clusterName = Nil
    /\ sess = Nil /\ ec2Client = Nil /\ metaClient = Nil
    /\ calls = <<>>
    /\ prev = NoCall /\ last = NoCall
    /\ BatchIdle

Init ==
    /\ opts \in SeqsUpTo(OptSet, MaxOpts)
    /\ reservations \in MainResponses
    /\ Fresh

\* -------------------------------------------------------------------- New
\* A nil pointer dereference: the goroutine panics and New never returns.
StepPanics ==
    /\ pc' = "panicked"
    /\ order' = Append(order, idx)
    /\ UNCHANGED <<opts, idx, newRet, stepErr>>

\* Variant of the loop that goes on to the next step whatever the step returned.
NewStep_NoStop(err) ==
    /\ order' = Append(order, idx)
    /\ stepErr' = Append(stepErr, err)
    /\ opts' = opts
    /\ pc' = pc
    /\ newRet' = newRet
    /\ idx' = idx + 1

\* Lines 41-45: the step at idx has returned err.
NewStep(err) ==
    /\ order' = Append(order, idx)
    /\ stepErr' = Append(stepErr, err)
    /\ opts' = opts
    /\ IF err # NoErr
       THEN /\ pc' = "failed"
            /\ newRet' = [client |-> FALSE, err |-> err]
            /\ idx' = idx
       ELSE /\ pc' = pc
            /\ newRet' = newRet
            /\ idx' = idx + 1

AtStep(kind) == pc = "new" /\ idx <= Len(opts) /\ opts[idx].kind = kind

\* Line 47: return c, nil.
New ==
    /\ pc = "new"
    /\ idx > Len(opts)
    /\ pc' = "ready"
    /\ newRet' = [client |-> TRUE, err |-> NoErr]
    /\ UNCHANGED <<opts, idx, order, stepErr, fieldVars, calls, getVars, batchVars>>

WithEC2Client ==
    /\ AtStep("WithEC2Client")
    /\ IF region = Nil
       THEN \* *c.region with c.region == nil
            /\ StepPanics
            /\ UNCHANGED <<fieldVars, calls>>
       ELSE /\ calls' = Append(calls, "session.NewSession")
            /\ \/ \E e \in CollabErrs :
                    /\ NewStep(Wrap("creating aws sdk session", e))
                    /\ UNCHANGED fieldVars
               \/ /\ sess' = Ptr([Region |-> Deref(region)])
                  /\ ec2Client' = Ptr([Region |-> Deref(region)])
                  /\ NewStep(NoErr)
                  /\ UNCHANGED <<region, accountID, clusterName, metaClient>>
    /\ UNCHANGED <<getVars, batchVars>>

WithValidateCredentials ==
    /\ AtStep("WithValidateCredentials")
    /\ IF sess = Nil
       THEN \* c.sess.Config with c.sess == nil
            /\ StepPanics
            /\ UNCHANGED calls
       ELSE /\ calls' = Append(calls, "Credentials.Get")
            /\ \/ \E e \in CollabErrs : NewStep(Wrap("validating aws credentials", e))
               \/ NewStep(NoErr)
    /\ UNCHANGED <<fieldVars, getVars, batchVars>>

WithMetadata ==
    /\ AtStep("WithMetadata")
    /\ accountID' = Ptr(opts[idx].accountID)
    /\ region' = Ptr(opts[idx].region)
    /\ clusterName' = Ptr(opts[idx].clusterName)
    /\ NewStep(NoErr)
    /\ UNCHANGED <<sess, ec2Client, metaClient, calls, getVars, batchVars>>

WithMetadataDiscovery ==
    /\ AtStep("WithMetadataDiscovery")
    /\ \/ \E e \in CollabErrs :
            /\ calls' = Append(calls, "session.NewSession")
            /\ NewStep(Wrap("creating metadata session", e))
            /\ UNCHANGED fieldVars
       \/ /\ metaClient' = Ptr("ec2metadata")
          /\ calls' = calls \o <<"session.NewSession", "Region">>
          /\ \/ \E e \in CollabErrs :
                  /\ NewStep(Wrap("getting instance region", e))
                  /\ region' = region
             \/ \E r \in MetaRegions :
                  /\ region' = Ptr(r)
                  /\ NewStep(NoErr)
          /\ UNCHANGED <<accountID, clusterName, sess, ec2Client>>
    /\ UNCHANGED <<getVars, batchVars>>

\* ---------------------------------------------------------------- getters
\* A getter call has returned (ret, err) after issuing the collaborator calls cs.
Returned(op, ret, err, cs) ==
    /\ prev' = last
    /\ last' = [op |-> op, ret |-> ret, err |-> err, calls |-> cs]
    /\ calls' = cs
    /\ reservations' = reservations
    /\ pc' = pc

\* A method call on a nil collaborator handle dereferences it in the SDK.
GetterPanics(cs) ==
    /\ pc' = "panicked"
    /\ calls' = cs
    /\ UNCHANGED getVars

GetRegion ==
    /\ pc = "ready"
    /\ IF region # Nil
       THEN /\ Returned("GetRegion", region, NoErr, <<>>)
            /\ region' = region
       ELSE IF metaClient = Nil
       THEN /\ GetterPanics(<<>>)
            /\ region' = region
       ELSE \/ \E e \in CollabErrs :
                 /\ Returned("GetRegion", Nil, e, <<"Region">>)
                 /\ region' = region
            \/ \E r \in MetaRegions :
                 /\ region' = Ptr(r)
                 /\ Returned("GetRegion", Ptr(r), NoErr, <<"Region">>)
    /\ UNCHANGED <<newVars, accountID, clusterName, sess, ec2Client, metaClient, batchVars>>

\* Variants of GetAccountID: one that never stores what it fetched, one that
\* fetches without looking at the cached value.
GetAccountID_NoStore ==
    /\ pc = "ready"
    /\ IF accountID # Nil
       THEN Returned("GetAccountID", accountID, NoErr, <<>>)
       ELSE IF metaClient = Nil
       THEN GetterPanics(<<>>)
       ELSE \/ \E e \in CollabErrs :
                 Returned("GetAccountID", Nil, e, <<"GetInstanceIdentityDocument">>)
            \/ \E a \in MetaAccountIDs :
                 Returned("GetAccountID", Ptr(a), NoErr, <<"GetInstanceIdentityDocument">>)
    /\ UNCHANGED <<newVars, fieldVars, batchVars>>

GetAccountID_NoCheck ==
    /\ pc = "ready"
    /\ IF metaClient = Nil
       THEN /\ GetterPanics(<<>>)
            /\ accountID' = accountID
       ELSE \/ \E e \in CollabErrs :
                 /\ Returned("GetAccountID", Nil, e, <<"GetInstanceIdentityDocument">>)
                 /\ accountID' = accountID
            \/ \E a \in MetaAccountIDs :
                 /\ accountID' = Ptr(a)
                 /\ Returned("GetAccountID", Ptr(a), NoErr,
                             <<"GetInstanceIdentityDocument">>)
    /\ UNCHANGED <<newVars, region, clusterName, sess, ec2Client, metaClient, batchVars>>

GetAccountID ==
    /\ pc = "ready"
    /\ IF accountID # Nil
       THEN /\ Returned("GetAccountID", accountID, NoErr, <<>>)
            /\ accountID' = accountID
       ELSE IF metaClient = Nil
       THEN /\ GetterPanics(<<>>)
            /\ accountID' = accountID
       ELSE \/ \E e \in CollabErrs :
                 /\ Returned("GetAccountID", Nil, e, <<"GetInstanceIdentityDocument">>)
                 /\ accountID' = accountID
            \/ \E a \in MetaAccountIDs :
                 /\ accountID' = Ptr(a)
                 /\ Returned("GetAccountID", Ptr(a), NoErr,
                             <<"GetInstanceIdentityDocument">>)
    /\ UNCHANGED <<newVars, region, clusterName, sess, ec2Client, metaClient, batchVars>>

\* Variant without the len(Tags) == 0 check of lines 192-194.
Discover_NoTagsCheck(resp) ==
    IF Len(resp) = 0
    THEN [name |-> Nil, err |-> <<"no reservations found">>]
    ELSE IF Len(resp[1]) = 0
    THEN [name |-> Nil, err |-> <<"no instances found">>]
    ELSE IF getClusterName(resp[1][1].Tags) = <<>>
    THEN [name |-> Nil, err |-> <<"discovering cluster name: instance cluster tags not found">>]
    ELSE [name |-> Ptr(getClusterName(resp[1][1].Tags)), err |-> NoErr]

\* Lines 184-203: what GetClusterName makes of a successful describe response.
\* [name, err]: the name to cache and return, or the error.
Discover(resp) ==
    IF Len(resp) = 0
    THEN [name |-> Nil, err |-> <<"no reservations found">>]
    ELSE IF Len(resp[1]) = 0
    THEN [name |-> Nil, err |-> <<"no instances found">>]
    ELSE IF Len(resp[1][1].Tags) = 0
    THEN [name |-> Nil, err |-> <<"no tags found">>]
    ELSE IF getClusterName(resp[1][1].Tags) = <<>>
    THEN [name |-> Nil, err |-> <<"discovering cluster name: instance cluster tags not found">>]
    ELSE [name |-> Ptr(getClusterName(resp[1][1].Tags)), err |-> NoErr]

GetClusterName ==
    /\ pc = "ready"
    /\ IF clusterName # Nil
       THEN /\ Returned("GetClusterName", clusterName, NoErr, <<>>)
            /\ clusterName' = clusterName
       ELSE IF metaClient = Nil
       THEN /\ GetterPanics(<<>>)
            /\ clusterName' = clusterName
       ELSE \/ \E e \in CollabErrs :
                 /\ Returned("GetClusterName", Nil,
                             Wrap("getting instance id from metadata", e),
                             <<"GetMetadata">>)
                 /\ clusterName' = clusterName
            \/ \E id \in MetaInstanceIDs :
                 IF ec2Client = Nil
                 THEN /\ GetterPanics(<<"GetMetadata">>)
                      /\ clusterName' = clusterName
                 ELSE LET cs == <<"GetMetadata", "DescribeInstances">> IN
                      \/ \E e \in CollabErrs :
                           /\ Returned("GetClusterName", Nil, Wrap("describing instance_id", e),
                                       cs)
                           /\ clusterName' = clusterName
                      \/ LET d == Discover(reservations) IN
                           /\ clusterName' = IF d.err = NoErr THEN d.name ELSE clusterName
                           /\ Returned("GetClusterName", d.name, d.err, cs)
    /\ UNCHANGED <<newVars, region, accountID, sess, ec2Client, metaClient, batchVars>>

\* ------------------------------------------------ GetInstancesByInstanceIDs
\* Variant that puts each reservation's instances in front of the accumulator.
RECURSIVE AppendReservations_Prepend(_, _, _)
AppendReservations_Prepend(acc, resp, r) ==
    IF r > Len(resp) THEN acc
    ELSE AppendReservations_Prepend(resp[r].Instances \o acc, resp, r + 1)

\* Lines 249-251: append every reservation's instances, from reservation r on.
RECURSIVE AppendReservations(_, _, _)
AppendReservations(acc, resp, r) ==
    IF r > Len(resp) THEN acc
    ELSE AppendReservations(acc \o resp[r].Instances, resp, r + 1)

\* Lines 223-231: the call, up to the loop's first test.
GetInstancesByInstanceIDs ==
    /\ pc = "ready"
    /\ bpc = "idle"
    /\ \E n \in 0..MaxIds : ids' = [k \in 1..n |-> IdAt(n, k)]
    /\ i' = 0
    /\ instances' = <<>>
    /\ bpc' = "loop"
    /\ UNCHANGED <<newVars, pc, fieldVars, calls, getVars, sent, resps, bret>>

\* Variant that hands back what earlier chunks accumulated.
ChunkFailed_Partial(e) ==
    /\ bret' = [instances |-> instances, err |-> Wrap("describing instances", e)]
    /\ bpc' = "done"
    /\ UNCHANGED <<i, instances, resps>>

\* Lines 245-247: the describe call of a chunk returned e.
ChunkFailed(e) ==
    /\ bret' = [instances |-> <<>>, err |-> Wrap("describing instances", e)]
    /\ bpc' = "done"
    /\ UNCHANGED <<i, instances, resps>>

\* Lines 232-252: one iteration of the loop.
DescribeChunk ==
    /\ pc = "ready"
    /\ bpc = "loop"
    /\ i < Len(ids)
    /\ LET batch == SubSeq(ids, i + 1, Min(i + batchSize, Len(ids))) IN
       IF ec2Client = Nil
       THEN /\ pc' = "panicked"
            /\ UNCHANGED <<calls, batchVars>>
       ELSE /\ pc' = pc
            /\ sent' = Append(sent, batch)
            /\ calls' = Append(calls, "DescribeInstances")
            /\ ids' = ids
            /\ \/ \E e \in CollabErrs : ChunkFailed(e)
               \/ \E resp \in BatchResponses :
                    /\ instances' = AppendReservations(instances, resp, 1)
                    /\ resps' = Append(resps, resp)
                    /\ i' = i + batchSize
                    /\ UNCHANGED <<bpc, bret>>
    /\ UNCHANGED <<newVars, fieldVars, getVars>>

\* Line 254: return instances, nil.
ReturnInstances ==
    /\ pc = "ready"
    /\ bpc = "loop"
    /\ i >= Len(ids)
    /\ bret' = [instances |-> instances, err |-> NoErr]
    /\ bpc' = "done"
    /\ UNCHANGED <<newVars, pc, fieldVars, calls, getVars, ids, i, instances, sent, resps>>

\* ---------------------------------------------------------- specifications
Next ==
    \/ WithEC2Client
    \/ WithValidateCredentials
    \/ WithMetadata
    \/ WithMetadataDiscovery
    \/ New
    \/ GetRegion
    \/ GetAccountID
    \/ GetClusterName

Spec == Init /\ [][Next]_vars

\* Cluster-name discovery over every tag list: a client built for discovery, or
\* with static metadata, on a node whose instance carries any of TagLists.
DiscoverOpts ==
    { << Step("WithMetadataDiscovery"), Step("WithEC2Client") >> }
    \cup { << Static(m) >> : m \in StaticMetadata }

InitDiscover ==
    /\ opts \in DiscoverOpts
    /\ reservations \in ClusterResponses
    /\ Fresh

NextDiscover ==
    \/ WithEC2Client
    \/ WithMetadata
    \/ WithMetadataDiscovery
    \/ New
    \/ GetClusterName

SpecDiscover == InitDiscover /\ [][NextDiscover]_vars

\* The chunked lookup on a client built with static metadata and an EC2 client.
BatchOpts ==
    { << Static(m), Step("WithEC2Client") >> : m \in StaticMetadata }

InitBatch ==
    /\ opts \in BatchOpts
    /\ reservations = <<>>
    /\ Fresh

NextBatch ==
    \/ WithEC2Client
    \/ WithMetadata
    \/ New
    \/ GetInstancesByInstanceIDs
    \/ DescribeChunk
    \/ ReturnInstances

SpecBatch == InitBatch /\ [][NextBatch]_vars

\* ================================================================= claims

Has(cs, name) == \E j \in 1..Len(cs) : cs[j] = name

\* ------------------------------------------------------------------- C1
\* C1: New calls the steps in the given order and stops at the first one that
\* returns an error: the steps called so far are 1, 2, ..., each once; a step
\* that returned an error is the last one called, every step before it returned
\* nil, and New has returned exactly that error and no client.
C1_FailFast ==
    /\ order = [j \in 1..Len(order) |-> j]
    /\ Len(order) <= Len(opts)
    /\ \A j \in 1..Len(stepErr) :
         stepErr[j] # NoErr =>
           /\ j = Len(order)
           /\ pc = "failed"
           /\ newRet = [client |-> FALSE, err |-> stepErr[j]]
    /\ pc = "failed" =>
         /\ Len(stepErr) = Len(order)
         /\ stepErr[Len(order)] # NoErr

\* The second of three steps failed and the third, a WithMetadata, left no trace.
C1_Witness ==
    /\ pc = "failed"
    /\ Len(opts) = 3
    /\ order = <<1, 2>>
    /\ opts[3].kind = "WithMetadata"
    /\ clusterName = Nil
    /\ newRet.err = stepErr[2]

\* ------------------------------------------------------------------- C10
\* C10: WithEC2Client applied while the region is unset returns an error, which
\* New returns together with no client, and sets neither sess nor ec2Client.
C10_UnsetRegionReturnsError ==
    [][(AtStep("WithEC2Client") /\ region = Nil) =>
          /\ pc' = "failed"
          /\ newRet'.err # NoErr
          /\ ~newRet'.client
          /\ sess' = Nil
          /\ ec2Client' = Nil]_vars

\* ------------------------------------------------------------------- C5
\* The collaborator calls the step from this state to the next has issued.
StepCalls ==
    IF pc = "new" THEN SubSeq(calls', Len(calls) + 1, Len(calls'))
    ELSE IF <<prev, last>>' # <<prev, last>> THEN calls'
    ELSE <<>>

Kept(field, fetches) ==
    /\ field' = field
    /\ \A f \in fetches : ~Has(StepCalls, f)

\* C5 as stated: over configuration steps and getter calls alike, a field that
\* holds a value is not fetched again, changed or cleared by any operation.
C5_WrittenAtMostOnce ==
    [][/\ region # Nil => Kept(region, {"Region"})
       /\ accountID # Nil => Kept(accountID, {"GetInstanceIdentityDocument"})
       /\ clusterName # Nil => Kept(clusterName, {"GetMetadata", "DescribeInstances"})]_vars

\* C5 amended: no operation ever clears a field that holds a value, and once
\* New has returned the client no getter call fetches such a field again or
\* changes it.
C5_GettersKeepFields ==
    [][/\ region # Nil =>
            /\ region' # Nil
            /\ pc = "ready" => Kept(region, {"Region"})
       /\ accountID # Nil =>
            /\ accountID' # Nil
            /\ pc = "ready" => Kept(accountID, {"GetInstanceIdentityDocument"})
       /\ clusterName # Nil =>
            /\ clusterName' # Nil
            /\ pc = "ready" => Kept(clusterName, {"GetMetadata", "DescribeInstances"})]_vars

\* GetAccountID fetched the account ID and the next GetAccountID answered from
\* the field.
C5_Witness ==
    /\ pc = "ready"
    /\ prev.op = "GetAccountID" /\ prev.calls = <<"GetInstanceIdentityDocument">>
    /\ prev.err = NoErr
    /\ last.op = "GetAccountID" /\ last.calls = <<>>
    /\ accountID = prev.ret

\* ------------------------------------------------------------------- C4
SameGetterTwice == prev.op # "none" /\ prev.op = last.op

\* C4 as stated: two successive calls of one getter perform the remote lookup
\* at most once between them, whatever the collaborators answered: the second
\* call issues no remote call and returns what the first returned.
C4_AtMostOneLookup ==
    SameGetterTwice =>
        /\ last.calls = <<>>
        /\ last.ret = prev.ret

\* C4 amended: when the first of two successive calls of one getter succeeds,
\* the second issues no remote call and returns the same value with no error;
\* when the first fails nothing was cached and the second looks up again.
C4_SecondCallCachedAfterSuccess ==
    SameGetterTwice =>
        IF prev.err = NoErr
        THEN /\ prev.ret # Nil
             /\ last.calls = <<>>
             /\ last.ret = prev.ret
             /\ last.err = NoErr
        ELSE /\ prev.ret = Nil
             /\ last.calls # <<>>

\* GetClusterName discovered the name and the next GetClusterName returned it
\* without a remote call.
C4_Witness ==
    /\ prev.op = "GetClusterName" /\ last.op = "GetClusterName"
    /\ prev.calls = <<"GetMetadata", "DescribeInstances">>
    /\ prev.err = NoErr
    /\ last.calls = <<>>
    /\ last.ret = prev.ret

\* ------------------------------------------------------ discovery (C6-C9)
\* The last getter call was a GetClusterName that ran discovery and got an
\* answer from both collaborators.
DescribeAnswered ==
    /\ last.op = "GetClusterName"
    /\ last.calls = <<"GetMetadata", "DescribeInstances">>
    /\ \/ last.err = NoErr
       \/ last.err[1] # "describing instance_id"

HasInstance == Len(reservations) > 0 /\ Len(reservations[1]) > 0
Tags == reservations[1][1].Tags
Discovery == DescribeAnswered /\ HasInstance /\ Len(Tags) > 0

NotFound == <<"discovering cluster name: instance cluster tags not found">>

Suffixes(s) == { SubSeq(s, j, Len(s)) : j \in 1..(Len(s) + 1) }
StartsWith(s, p) == \E r \in Suffixes(s) : s = p \o r
Remainder(s, p) == CHOOSE r \in Suffixes(s) : s = p \o r
Prefixes == { tagEKSK8sCluster, tagEKSKubernetesCluster }

HasKeyValue(tag) == tag # Nil /\ Deref(tag).Key # Nil /\ Deref(tag).Value # Nil
KeyOf(tag) == Deref(Deref(tag).Key)
ValueOf(tag) == Deref(Deref(tag).Value)

\* Rule 1: a key with an ownership prefix and the value "owned".
IsOwnedTag(tag) ==
    /\ HasKeyValue(tag)
    /\ ValueOf(tag) = owned
    /\ \E p \in Prefixes : StartsWith(KeyOf(tag), p)
\* Rule 2: the key KubernetesCluster (with some value).
IsKopsTag(tag) == HasKeyValue(tag) /\ KeyOf(tag) = tagKOPSKubernetesCluster

Matches(tag) == IsOwnedTag(tag) \/ IsKopsTag(tag)
First(j) == Matches(Tags[j]) /\ \A k \in 1..(j - 1) : ~Matches(Tags[k])

\* The name a matching tag stands for.
NameOf(tag) ==
    IF IsOwnedTag(tag)
    THEN Remainder(KeyOf(tag), CHOOSE p \in Prefixes : StartsWith(KeyOf(tag), p))
    ELSE ValueOf(tag)

Succeeded(name) == last.err = NoErr /\ last.ret = Ptr(name) /\ clusterName = Ptr(name)
FailedWith(err) == last.err = err /\ last.ret = Nil /\ clusterName = Nil

\* C6 as stated: whenever the tag list contains an ownership tag, discovery
\* succeeds and returns the remainder of such a tag's key.
C6_OwnedTagGivesSuffix ==
    (Discovery /\ \E j \in 1..Len(Tags) : IsOwnedTag(Tags[j])) =>
        \E j \in 1..Len(Tags) : IsOwnedTag(Tags[j]) /\ Succeeded(NameOf(Tags[j]))

\* C6 amended: when the first tag matching either rule is an ownership tag,
\* discovery returns the remainder of its key after the prefix if that
\* remainder is not empty, and fails with "cluster tags not found" if it is.
C6_FirstOwnedTagGivesSuffix ==
    Discovery =>
        \A j \in 1..Len(Tags) :
            (First(j) /\ IsOwnedTag(Tags[j])) =>
                \A p \in Prefixes :
                    StartsWith(KeyOf(Tags[j]), p) =>
                        IF Remainder(KeyOf(Tags[j]), p) = <<>>
                        THEN FailedWith(NotFound)
                        ELSE Succeeded(Remainder(KeyOf(Tags[j]), p))

\* A tag list whose second tag is kubernetes.io/cluster/b = owned, after a tag
\* that matches nothing: the name is "b".
C6_Witness ==
    /\ Discovery
    /\ Len(Tags) = 2
    /\ ~Matches(Tags[1])
    /\ IsOwnedTag(Tags[2])
    /\ KeyOf(Tags[2]) = tagEKSKubernetesCluster \o <<"b">>
    /\ last.ret = Ptr(<<"b">>)

NoOwnedTag == \A j \in 1..Len(Tags) : ~IsOwnedTag(Tags[j])

\* C7 as stated: with no ownership tag but some tag keyed KubernetesCluster,
\* discovery succeeds and returns that tag's value, whatever the value.
C7_KopsTagGivesValue ==
    (Discovery /\ NoOwnedTag /\ \E j \in 1..Len(Tags) : IsKopsTag(Tags[j])) =>
        \E j \in 1..Len(Tags) : IsKopsTag(Tags[j]) /\ Succeeded(ValueOf(Tags[j]))

\* C7 amended: with no ownership tag, the first tag keyed KubernetesCluster that
\* has a value decides: discovery returns that value verbatim when it is not
\* empty and fails with "cluster tags not found" when it is empty.
C7_FirstKopsTagGivesNonEmptyValue ==
    (Discovery /\ NoOwnedTag) =>
        \A j \in 1..Len(Tags) :
            (IsKopsTag(Tags[j]) /\ \A k \in 1..(j - 1) : ~IsKopsTag(Tags[k])) =>
                IF ValueOf(Tags[j]) = <<>>
                THEN FailedWith(NotFound)
                ELSE Succeeded(ValueOf(Tags[j]))

\* KubernetesCluster = "c" after a tag that has an ownership prefix but not the
\* value "owned".
C7_Witness ==
    /\ Discovery
    /\ NoOwnedTag
    /\ Len(Tags) = 2
    /\ HasKeyValue(Tags[1])
    /\ StartsWith(KeyOf(Tags[1]), tagEKSK8sCluster)
    /\ IsKopsTag(Tags[2])
    /\ last.ret = Ptr(<<"c">>)
    /\ ValueOf(Tags[2]) = <<"c">>

C9_Checks ==
    DescribeAnswered =>
        /\ last.err # NoErr => FailedWith(last.err)
        /\ IF Len(reservations) = 0
           THEN last.err = <<"no reservations found">>
           ELSE IF Len(reservations[1]) = 0
           THEN last.err = <<"no instances found">>
           ELSE IF Len(Tags) = 0
           THEN last.err = <<"no tags found">>
           ELSE (\A j \in 1..Len(Tags) : ~Matches(Tags[j])) => last.err = NotFound

\* C9 as stated: no GetClusterName call succeeds with an empty name, and the
\* checks hold.
C9_NeverEmptyName ==
    /\ (last.op = "GetClusterName" /\ last.err = NoErr) => last.ret \notin {Nil, Ptr(<<>>)}
    /\ C9_Checks

\* C9 amended: no GetClusterName call that runs discovery (no cached name)
\* succeeds with an empty name, and the checks hold; a name cached by
\* WithMetadata is returned as it is, the empty string included.
C9_DiscoveryNeverEmptyName ==
    /\ (last.op = "GetClusterName" /\ last.err = NoErr) =>
          /\ last.ret # Nil
          /\ last.calls # <<>> => last.ret # Ptr(<<>>)
          /\ last.ret = Ptr(<<>>) =>
                \E j \in 1..Len(order) :
                    opts[j].kind = "WithMetadata" /\ opts[j].clusterName = <<>>
    /\ C9_Checks

\* Two tags, neither matching: "cluster tags not found" and nothing cached.
C9_Witness ==
    /\ Discovery
    /\ Len(Tags) = 2
    /\ \A j \in 1..Len(Tags) : ~Matches(Tags[j])
    /\ last.err = NotFound
    /\ clusterName = Nil

\* ------------------------------------------------------- batch (C2, C3)
\* The instances of one response, reservation by reservation, and of a list of
\* responses, response by response.
RECURSIVE InstancesOf(_)
InstancesOf(resp) ==
    IF resp = <<>> THEN <<>> ELSE Head(resp).Instances \o InstancesOf(Tail(resp))

RECURSIVE InstancesOfAll(_)
InstancesOfAll(rs) ==
    IF rs = <<>> THEN <<>> ELSE InstancesOf(Head(rs)) \o InstancesOfAll(Tail(rs))

\* C2: when every describe call succeeds, n identifiers give ceil(n/20) calls,
\* call j carrying identifiers 20(j-1)+1 .. min(20j, n) in input order, and the
\* result is every instance of every reservation of every response, in chunk,
\* reservation and instance order, duplicates kept.
C2_ChunksOf20Concatenated ==
    (bpc = "done" /\ bret.err = NoErr) =>
        LET n == Len(ids) IN
        /\ Len(sent) = (n + 19) \div 20
        /\ Len(resps) = Len(sent)
        /\ \A j \in 1..Len(sent) :
             LET lo == 20 * (j - 1) + 1
                 hi == IF 20 * j < n THEN 20 * j ELSE n
             IN sent[j] = [k \in 1..(hi - lo + 1) |-> ids[lo + k - 1]]
        /\ bret.instances = InstancesOfAll(resps)
        /\ n = 0 => sent = <<>> /\ bret.instances = <<>>

\* 45 identifiers: three calls of 20, 20 and 5, each answering two reservations
\* of which the first repeats an instance of the second.
C2_Witness ==
    /\ bpc = "done" /\ bret.err = NoErr
    /\ Len(ids) = 45
    /\ Len(sent) = 3
    /\ Len(sent[1]) = 20 /\ Len(sent[2]) = 20 /\ Len(sent[3]) = 5
    /\ \A j \in 1..3 : resps[j] = << [Instances |-> <<"i-b", "i-a">>], [Instances |-> <<"i-a">>] >>
    /\ Len(bret.instances) = 9

\* C3: a describe call that fails is the last one issued, the operation returns
\* its error at once, and the returned collection is empty whatever the
\* earlier chunks accumulated.
C3_ChunkErrorDiscardsPartial ==
    /\ Len(sent) > Len(resps) =>
         /\ Len(sent) = Len(resps) + 1
         /\ bpc = "done"
         /\ bret.err \in { Wrap("describing instances", e) : e \in CollabErrs }
         /\ bret.instances = <<>>
    /\ (bpc = "done" /\ bret.err # NoErr) => Len(sent) > Len(resps)

\* The second of three chunks failed after the first had delivered instances.
C3_Witness ==
    /\ bpc = "done" /\ bret.err # NoErr
    /\ Len(ids) = 45
    /\ Len(sent) = 2
    /\ instances # <<>>
    /\ bret.instances = <<>>

====
